---- MODULE Spec2Model ----
(***************************************************************************)
(* AffinityMCP: the JSON-RPC dispatcher of src/mcp.rs (initialize,         *)
(* initialized, tools/list, tools/call) and the batch tools of             *)
(* src/tools/affinity.rs (batch_open_files, batch_export), which fan out   *)
(* up to 16 item futures under join_all and fold their outputs into one    *)
(* order-preserving result.                                                *)
(*                                                                         *)
(* One call is in flight at a time.  A call runs synchronously up to the   *)
(* first suspension (the first poll of join_all, which polls the item      *)
(* futures in index order), then the blocking osascript tasks complete in  *)
(* any order, then the handler folds the outputs and the envelope is sent. *)
(***************************************************************************)
EXTENDS Integers, Sequences, FiniteSets, TLC

(* ---------------------------- bounds ----------------------------------- *)

\* longest item list of a batch request in the small request family
MaxBatch == 3
\* an oversized batch has BatchLimit + 1 .. BatchLimit + MaxExtra items
MaxExtra == 1
\* number of calls a behaviour serves
MaxCalls == 2

(* ---------------------------- program constants ------------------------ *)

\* take(16) of batch_open_files and batch_export
BatchLimit == 16
\* jsonrpc_core ErrorCode::InternalError and ErrorCode::InvalidParams
InternalErrorCode == -32603
InvalidParamsCode == -32602

(* ---------------------------- strings ---------------------------------- *)

\* the paths requests are built from
Paths == {"a.AFDESIGN", "b"}

UpperChars == <<"A", "B", "C", "D", "E", "F", "G", "H", "I", "J", "K", "L", "M",
                "N", "O", "P", "Q", "R", "S", "T", "U", "V", "W", "X", "Y", "Z">>
LowerChars == <<"a", "b", "c", "d", "e", "f", "g", "h", "i", "j", "k", "l", "m",
                "n", "o", "p", "q", "r", "s", "t", "u", "v", "w", "x", "y", "z">>

\* char::to_lowercase on one ASCII character
LowerChar(c) ==
    IF \E k \in 1..26 : UpperChars[k] = c
    THEN LowerChars[CHOOSE k \in 1..26 : UpperChars[k] = c]
    ELSE c

RECURSIVE lowercase_from(_, _)
\* str::to_lowercase, the characters of s from position i on
lowercase_from(s, i) ==
    IF i > Len(s) THEN ""
    ELSE LowerChar(SubSeq(s, i, i)) \o lowercase_from(s, i + 1)

\* str::to_lowercase
to_lowercase(s) == lowercase_from(s, 1)

\* str::ends_with
ends_with(s, suffix) ==
    /\ Len(s) >= Len(suffix)
    /\ SubSeq(s, Len(s) - Len(suffix) + 1, Len(s)) = suffix

(* ---------------------------- affinity.rs: applications ---------------- *)

\* Option<AffinityApp>: None or one of the three variants
NoApp == "None"
AffinityApp == {"Photo", "Designer", "Publisher"}

\* AffinityApp::app_name
app_name(app) ==
    CASE app = "Photo" -> "Affinity Photo"
      [] app = "Designer" -> "Affinity Designer"
      [] app = "Publisher" -> "Affinity Publisher"

\* the suffixes compared with the path as it was given
detect_app_from_path_case_sensitive(path) ==
    LET path_lower == path IN
    IF \/ ends_with(path_lower, ".afphoto")
       \/ ends_with(path_lower, ".afdesign")
       \/ ends_with(path_lower, ".afpub")
    THEN IF ends_with(path_lower, ".afphoto") THEN "Affinity Photo"
         ELSE IF ends_with(path_lower, ".afdesign") THEN "Affinity Designer"
         ELSE "Affinity Publisher"
    ELSE "Affinity Photo"

\* detect_app_from_path
detect_app_from_path(path) ==
    LET path_lower == to_lowercase(path) IN
    IF \/ ends_with(path_lower, ".afphoto")
       \/ ends_with(path_lower, ".afdesign")
       \/ ends_with(path_lower, ".afpub")
    THEN IF ends_with(path_lower, ".afphoto") THEN "Affinity Photo"
         ELSE IF ends_with(path_lower, ".afdesign") THEN "Affinity Designer"
         ELSE "Affinity Publisher"
    ELSE "Affinity Photo"

\* params.app.as_ref().map(|a| a.app_name()).unwrap_or_else(|| detect_app_from_path(..))
ResolveApp(path, app) ==
    IF app = NoApp THEN detect_app_from_path(path) ELSE app_name(app)

(* ---------------------------- JSON values ------------------------------ *)

\* serde_json::Value; an object is a record of values, an array a sequence
JNull == [t |-> "null"]
JStr(s) == [t |-> "str", s |-> s]
JNum(n) == [t |-> "num", n |-> n]
JArr(a) == [t |-> "arr", a |-> a]
JObj(o) == [t |-> "obj", o |-> o]
JBool(b) == [t |-> "bool", b |-> b]

\* Value::get(key).is_some()
Has(v, key) == v.t = "obj" /\ key \in DOMAIN v.o
\* Value::get(key).and_then(|v| v.as_str()).is_some()
HasStr(v, key) == Has(v, key) /\ v.o[key].t = "str"
\* a field that is absent or null: #[serde(default)] on an Option
Missing(v, key) == ~Has(v, key) \/ v.o[key].t = "null"

\* Result<T, E>
Ok(v) == [ok |-> TRUE, val |-> v]
Err(e) == [ok |-> FALSE, err |-> e]

(* ---------------------------- affinity.rs: request shapes -------------- *)

ExportFormat == {"pdf", "png", "jpg", "tiff", "svg"}
\* Option<u8>::None of ExportParams.quality
NoQuality == -1

\* Deserialize for Option<AffinityApp> under #[serde(default)]
AppFieldOk(v) ==
    Missing(v, "app") \/ (HasStr(v, "app") /\ v.o.app.s \in AffinityApp)
AppField(v) == IF Missing(v, "app") THEN NoApp ELSE v.o.app.s

\* Deserialize for Option<u8> under #[serde(default)]
QualityFieldOk(v) ==
    Missing(v, "quality")
        \/ (v.o.quality.t = "num" /\ v.o.quality.n \in 0..255)
QualityField(v) == IF Missing(v, "quality") THEN NoQuality ELSE v.o.quality.n

\* serde_json::from_value::<OpenFileParams>
OpenFileParams(v) ==
    IF v.t = "obj" /\ HasStr(v, "path") /\ AppFieldOk(v)
    THEN Ok([path |-> v.o.path.s, app |-> AppField(v)])
    ELSE Err("invalid OpenFileParams")

\* serde_json::from_value::<ExportParams>
ExportParams(v) ==
    IF /\ v.t = "obj"
       /\ HasStr(v, "path")
       /\ HasStr(v, "format") /\ v.o.format.s \in ExportFormat
       /\ QualityFieldOk(v)
    THEN Ok([path |-> v.o.path.s, format |-> v.o.format.s,
             quality |-> QualityField(v)])
    ELSE Err("invalid ExportParams")

\* serde_json::from_value::<BatchOpenFilesParams>: paths: Vec<String>
BatchOpenFilesParams(v) ==
    IF /\ v.t = "obj"
       /\ Has(v, "paths") /\ v.o.paths.t = "arr"
       /\ \A k \in 1..Len(v.o.paths.a) : v.o.paths.a[k].t = "str"
       /\ AppFieldOk(v)
    THEN Ok([paths |-> [k \in 1..Len(v.o.paths.a) |-> v.o.paths.a[k].s],
             app |-> AppField(v)])
    ELSE Err("invalid BatchOpenFilesParams")

\* a batch deserialized element by element, the entries that are not an
\* ExportParams left out
BatchExportParams_skip_malformed(v) ==
    IF /\ v.t = "obj"
       /\ Has(v, "exports") /\ v.o.exports.t = "arr"
    THEN LET good == SelectSeq(v.o.exports.a, LAMBDA e : ExportParams(e).ok)
         IN  Ok([exports |-> [k \in 1..Len(good) |-> ExportParams(good[k]).val]])
    ELSE Err("invalid BatchExportParams")

\* serde_json::from_value::<BatchExportParams>: exports: Vec<ExportParams>
BatchExportParams(v) ==
    IF /\ v.t = "obj"
       /\ Has(v, "exports") /\ v.o.exports.t = "arr"
       /\ \A k \in 1..Len(v.o.exports.a) : ExportParams(v.o.exports.a[k]).ok
    THEN Ok([exports |-> [k \in 1..Len(v.o.exports.a) |->
                              ExportParams(v.o.exports.a[k]).val]])
    ELSE Err("invalid BatchExportParams")

\* Deserialize for Option<u32> under #[serde(default)]
SizeFieldOk(v, key) ==
    Missing(v, key) \/ (v.o[key].t = "num" /\ v.o[key].n >= 0)

\* Option<String>::None of DrawPikachuParams.output_path
NoPath == "None"

\* serde_json::from_value::<CreateNewParams>: app is required
CreateNewParams(v) ==
    IF /\ v.t = "obj"
       /\ HasStr(v, "app") /\ v.o.app.s \in AffinityApp
       /\ SizeFieldOk(v, "width") /\ SizeFieldOk(v, "height")
    THEN Ok([app |-> v.o.app.s])
    ELSE Err("invalid CreateNewParams")

\* serde_json::from_value::<ApplyFilterParams>: filter_name is required
ApplyFilterParams(v) ==
    IF /\ v.t = "obj"
       /\ HasStr(v, "filter_name")
       /\ Missing(v, "intensity")
             \/ (v.o.intensity.t = "num" /\ v.o.intensity.n \in 0..255)
    THEN Ok([filter_name |-> v.o.filter_name.s])
    ELSE Err("invalid ApplyFilterParams")

\* serde_json::from_value::<DrawPikachuParams>: every field is optional
DrawPikachuParams(v) ==
    IF /\ v.t = "obj"
       /\ Missing(v, "output_path") \/ HasStr(v, "output_path")
       /\ SizeFieldOk(v, "width") /\ SizeFieldOk(v, "height")
    THEN Ok([output_path |-> IF Missing(v, "output_path") THEN NoPath
                             ELSE v.o.output_path.s])
    ELSE Err("invalid DrawPikachuParams")

\* serde_json::from_value::<CreateDesignIn>: title is required
CreateDesignIn(v) ==
    IF /\ v.t = "obj"
       /\ HasStr(v, "title")
       /\ Missing(v, "template_id") \/ HasStr(v, "template_id")
       /\ SizeFieldOk(v, "width") /\ SizeFieldOk(v, "height")
    THEN Ok([title |-> v.o.title.s])
    ELSE Err("invalid CreateDesignIn")

\* get_active_document() and close_document() take no request
NoParams == [none |-> TRUE]

(* ---------------------------- state ------------------------------------ *)

VARIABLES
    macos,      \* build target: cfg(target_os = "macos") or not
    world,      \* what the file system and osascript do for each path
    front,      \* what a script that names no file finds in the application
    reqs,       \* the family of requests the client sends
    server_name,\* the name main passes to build_server
    pc,         \* "idle": waiting for a request; "await": join_all pending
    req,        \* the request being served (the last one when idle)
    items,      \* the typed requests captured by the item futures
    elems,      \* join_all's slots: a pending future or its output
    invoked,    \* item indices, one per process spawned, in spawn order
    resp,       \* the envelope sent for the last call
    sent,       \* response envelopes written for the call being served
    diag,       \* error causes written to the tracing log by this call
    served,     \* calls served so far
    past,       \* history: how the earlier calls ended, as a set of classes
    stage       \* the states the tools/call closure has entered for this call

vars == <<macos, world, front, reqs, server_name, pc, req, items, elems, invoked,
          resp, sent, diag, served, past, stage>>

\* per path: the file exists and the script succeeds; the file does not
\* exist; the file exists and the script fails
Fates == {"ok", "nofile", "scriptfail"}

\* std::fs::canonicalize(path).is_ok()
canonicalize(path) == world[path] # "nofile"
\* run_applescript(script).is_ok() for the script built for this path
run_applescript(path) == world[path] # "scriptfail"

\* for a script that names no file: a document is open and the script
\* succeeds; no document is open; the script fails
FrontFates == {"document", "none", "scriptfail"}

\* run_applescript(script).is_ok() for a script that names no file
run_front_script == front # "scriptfail"

\* fs::write(output_path, ..).is_ok()
fs_write(path) == path = NoPath \/ world[path] # "nofile"

\* open_result.status.success() of open -a "Affinity Photo" <file>
open_with_photo(path) ==
    IF path = NoPath THEN front # "scriptfail" ELSE world[path] = "ok"

(* ---------------------------- affinity.rs: item futures ---------------- *)

\* Poll::Pending, Poll::Ready(output)
Pending == [st |-> "pending"]
Ready(out) == [st |-> "ready", out |-> out]

\* an open_file whose build without osascript returns an error
open_file_poll_unsupported_error(params) ==
    IF macos
    THEN IF canonicalize(params.path)
         THEN Pending
         ELSE Ready(Err("canonicalize failed: " \o params.path))
    ELSE Ready(Err("unsupported on this platform: " \o params.path))

\* open_file up to its first suspension
open_file_poll(params) ==
    IF macos
    THEN IF canonicalize(params.path)
         THEN Pending
         ELSE Ready(Err("canonicalize failed: " \o params.path))
    ELSE Ready(Ok([opened |-> FALSE, app |-> "Unsupported",
                   path |-> params.path]))

\* open_file from the completion of run_applescript to its return
open_file_resume(params) ==
    IF run_applescript(params.path)
    THEN Ok([opened |-> TRUE,
             app |-> ResolveApp(params.path, params.app),
             path |-> params.path])
    ELSE Err("open_file failed: " \o params.path)

\* export up to its first suspension
export_poll(params) ==
    IF macos
    THEN Pending
    ELSE Ready(Ok([exported |-> FALSE, path |-> params.path]))

\* export from the completion of run_applescript to its return
export_resume(params) ==
    IF run_applescript(params.path)
    THEN Ok([exported |-> TRUE, path |-> params.path])
    ELSE Err("export failed: " \o params.path)

\* create_new up to its first suspension, and from the completion of
\* run_applescript to its return
create_new_poll(params) ==
    IF macos THEN Pending
    ELSE Ready(Ok([created |-> FALSE, app |-> "Unsupported"]))
create_new_resume(params) ==
    IF run_front_script
    THEN Ok([created |-> TRUE, app |-> app_name(params.app)])
    ELSE Err("create_new failed: " \o app_name(params.app))

\* apply_filter: its script raises an error when no document is open
apply_filter_poll(params) ==
    IF macos THEN Pending
    ELSE Ready(Ok([applied |-> FALSE, filter_name |-> params.filter_name]))
apply_filter_resume(params) ==
    IF front = "document"
    THEN Ok([applied |-> TRUE, filter_name |-> params.filter_name])
    ELSE Err("apply_filter failed: " \o params.filter_name)

\* get_active_document: its script returns "||" when no document is open
get_active_document_poll(params) ==
    IF macos THEN Pending
    ELSE Ready(Ok([is_open |-> FALSE, name |-> NoPath, path |-> NoPath]))
get_active_document_resume(params) ==
    IF run_front_script
    THEN IF front = "none"
         THEN Ok([is_open |-> FALSE, name |-> NoPath, path |-> NoPath])
         ELSE Ok([is_open |-> TRUE, name |-> "Untitled", path |-> "a.AFDESIGN"])
    ELSE Err("get_active_document failed")

\* close_document
close_document_poll(params) ==
    IF macos THEN Pending ELSE Ready(Ok([closed |-> FALSE]))
close_document_resume(params) ==
    IF run_front_script THEN Ok([closed |-> TRUE])
    ELSE Err("close_document failed")

\* draw_pikachu up to its first suspension: fs::write, then open -a
\* "Affinity Photo" is spawned
draw_pikachu_poll(params) ==
    IF macos
    THEN IF fs_write(params.output_path)
         THEN Pending
         ELSE Ready(Err("write failed: " \o params.output_path))
    ELSE Ready(Ok([created |-> FALSE, file_path |-> "", app |-> "Unsupported"]))
\* if !open_result.status.success(): open -a "Affinity Designer" is spawned
draw_pikachu_retry(params) == ~open_with_photo(params.output_path)
\* draw_pikachu from the exit of the last open to its return
draw_pikachu_resume(params) ==
    Ok([created |-> TRUE,
        file_path |-> IF params.output_path = NoPath THEN "pikachu.svg"
                      ELSE params.output_path,
        app |-> "Affinity Photo/Designer"])

(* ---------------------------- canva.rs --------------------------------- *)

\* create_design: a stub that never suspends; the id is "demo-" and a
\* fresh uuid
create_design_poll(params) == Ready(Ok([design_id |-> "demo-uuid"]))

(* ---------------------------- affinity.rs: batch tools ----------------- *)

\* take with the limit dropped: every element is kept
take_all(s, n) == s

\* Iterator::take(n).collect()
take(s, n) == SubSeq(s, 1, IF Len(s) < n THEN Len(s) ELSE n)

\* the loop body with the Err arm pushing its placeholder without counting it
batch_open_files_step_uncounted(acc, result) ==
    IF result.ok
    THEN [success_count |-> acc.success_count
                                + (IF result.val.opened THEN 1 ELSE 0),
          failure_count |-> acc.failure_count
                                + (IF result.val.opened THEN 0 ELSE 1),
          results |-> Append(acc.results, result.val)]
    ELSE [success_count |-> acc.success_count,
          failure_count |-> acc.failure_count,
          results |-> Append(acc.results,
                          [opened |-> FALSE, app |-> "Error",
                           path |-> "unknown"])]

\* one iteration of the for loop of batch_open_files: match result { Ok / Err }
batch_open_files_step(acc, result) ==
    IF result.ok
    THEN [success_count |-> acc.success_count
                                + (IF result.val.opened THEN 1 ELSE 0),
          failure_count |-> acc.failure_count
                                + (IF result.val.opened THEN 0 ELSE 1),
          results |-> Append(acc.results, result.val)]
    ELSE [success_count |-> acc.success_count,
          failure_count |-> acc.failure_count + 1,
          results |-> Append(acc.results,
                          [opened |-> FALSE, app |-> "Error",
                           path |-> "unknown"])]

RECURSIVE batch_open_files_loop(_, _)
\* the for loop of batch_open_files over the outputs of join_all
batch_open_files_loop(results, acc) ==
    IF results = <<>> THEN acc
    ELSE batch_open_files_loop(Tail(results),
                               batch_open_files_step(acc, Head(results)))

\* batch_open_files with the item errors propagated by ? instead of matched
batch_open_files_propagate(results) ==
    IF \E k \in DOMAIN results : ~results[k].ok
    THEN Err(results[CHOOSE k \in DOMAIN results :
                        /\ ~results[k].ok
                        /\ \A j \in 1..(k - 1) : results[j].ok].err)
    ELSE Ok(batch_open_files_loop(results,
                [success_count |-> 0, failure_count |-> 0, results |-> <<>>]))

\* batch_open_files after join_all: the loop and the returned Result
batch_open_files(results) ==
    Ok(batch_open_files_loop(results,
           [success_count |-> 0, failure_count |-> 0, results |-> <<>>]))

\* an iteration that counts every Ok as a success, whatever its flag
batch_export_step_by_variant(acc, result) ==
    IF result.ok
    THEN [success_count |-> acc.success_count + 1,
          failure_count |-> acc.failure_count,
          results |-> Append(acc.results, result.val)]
    ELSE [success_count |-> acc.success_count,
          failure_count |-> acc.failure_count + 1,
          results |-> Append(acc.results,
                          [exported |-> FALSE, path |-> "unknown"])]

\* one iteration of the for loop of batch_export: match result { Ok / Err }
batch_export_step(acc, result) ==
    IF result.ok
    THEN [success_count |-> acc.success_count
                                + (IF result.val.exported THEN 1 ELSE 0),
          failure_count |-> acc.failure_count
                                + (IF result.val.exported THEN 0 ELSE 1),
          results |-> Append(acc.results, result.val)]
    ELSE [success_count |-> acc.success_count,
          failure_count |-> acc.failure_count + 1,
          results |-> Append(acc.results,
                          [exported |-> FALSE, path |-> "unknown"])]

RECURSIVE batch_export_loop(_, _)
\* the for loop of batch_export over the outputs of join_all
batch_export_loop(results, acc) ==
    IF results = <<>> THEN acc
    ELSE batch_export_loop(Tail(results),
                           batch_export_step(acc, Head(results)))

\* batch_export after join_all: the loop and the returned Result
batch_export(results) ==
    Ok(batch_export_loop(results,
           [success_count |-> 0, failure_count |-> 0, results |-> <<>>]))

\* the item futures of batch_open_files: take(16), then one open_file each
batch_open_files_tasks(params) ==
    LET paths == take(params.paths, BatchLimit) IN
    [k \in 1..Len(paths) |-> [path |-> paths[k], app |-> params.app]]

\* one export future for every entry of exports, without take
batch_export_tasks_unbounded(params) == params.exports

\* the item futures of batch_export: take(16), then one export each
batch_export_tasks(params) == take(params.exports, BatchLimit)

(* ---------------------------- mcp.rs: handle_tool_call ----------------- *)

\* the names of get_all_tools, in the order they are pushed
ToolNames ==
    <<"affinity.open_file", "affinity.create_new", "affinity.export",
      "affinity.apply_filter", "affinity.get_active_document",
      "affinity.close_document", "affinity.batch_open_files",
      "affinity.batch_export", "affinity.draw_pikachu", "canva.create_design">>

\* a catalog kept in a registry that every served call rotates by one
get_all_tools_rotating ==
    [k \in 1..Len(ToolNames) |->
        [name |-> ToolNames[((k - 1 + served) % Len(ToolNames)) + 1]]]

\* a catalog that also lists draw_shape, a function of affinity.rs that
\* handle_tool_call has no arm for
get_all_tools_with_draw_shape ==
    Append([k \in 1..Len(ToolNames) |-> [name |-> ToolNames[k]]],
           [name |-> "affinity.draw_shape"])

\* get_all_tools: the descriptors, by name
get_all_tools == [k \in 1..Len(ToolNames) |-> [name |-> ToolNames[k]]]

\* serde_json::to_value of OpenFileResult, ExportResult and the batch results
to_value_open(r) ==
    JObj([opened |-> JBool(r.opened), app |-> JStr(r.app), path |-> JStr(r.path)])
to_value_export(r) ==
    JObj([exported |-> JBool(r.exported), path |-> JStr(r.path)])
to_value_batch_open(b) ==
    JObj([success_count |-> JNum(b.success_count),
          failure_count |-> JNum(b.failure_count),
          results |-> JArr([k \in 1..Len(b.results) |->
                               to_value_open(b.results[k])])])
to_value_batch_export(b) ==
    JObj([success_count |-> JNum(b.success_count),
          failure_count |-> JNum(b.failure_count),
          results |-> JArr([k \in 1..Len(b.results) |->
                               to_value_export(b.results[k])])])

\* serde_json::to_value of the results of the other tools
to_value_create(r) ==
    JObj([created |-> JBool(r.created), app |-> JStr(r.app)])
to_value_filter(r) ==
    JObj([applied |-> JBool(r.applied), filter_name |-> JStr(r.filter_name)])
to_value_active(r) ==
    JObj([is_open |-> JBool(r.is_open),
          name |-> IF r.name = NoPath THEN JNull ELSE JStr(r.name),
          path |-> IF r.path = NoPath THEN JNull ELSE JStr(r.path)])
to_value_close(r) == JObj([closed |-> JBool(r.closed)])
to_value_pikachu(r) ==
    JObj([created |-> JBool(r.created), file_path |-> JStr(r.file_path),
          app |-> JStr(r.app)])
to_value_design(r) == JObj([design_id |-> JStr(r.design_id), url |-> JNull])

\* the match arms of handle_tool_call whose tools are Affinity file actions
FileTools == {"affinity.open_file", "affinity.export",
              "affinity.batch_open_files", "affinity.batch_export"}

\* the string patterns of the match in handle_tool_call
MatchArms ==
    {"affinity.open_file", "affinity.create_new", "affinity.export",
     "affinity.apply_filter", "affinity.get_active_document",
     "affinity.close_document", "affinity.batch_open_files",
     "affinity.batch_export", "affinity.draw_pikachu", "canva.create_design"}

\* the match arms that deserialize the arguments; the arms of
\* get_active_document and close_document never read them
ParsingArms ==
    MatchArms \ {"affinity.get_active_document", "affinity.close_document"}

\* from_value(..).unwrap_or_default() in the batch open arm: arguments that
\* do not deserialize become an empty batch
handle_tool_call_parse_lenient(name, arguments) ==
    LET parsed ==
          CASE name = "affinity.open_file" -> OpenFileParams(arguments)
            [] name = "affinity.export" -> ExportParams(arguments)
            [] name = "affinity.batch_open_files" -> BatchOpenFilesParams(arguments)
            [] name = "affinity.batch_export" -> BatchExportParams(arguments)
            [] name = "affinity.create_new" -> CreateNewParams(arguments)
            [] name = "affinity.apply_filter" -> ApplyFilterParams(arguments)
            [] name = "affinity.draw_pikachu" -> DrawPikachuParams(arguments)
            [] name = "canva.create_design" -> CreateDesignIn(arguments)
            [] name \in MatchArms \ ParsingArms -> Ok(NoParams)
            [] name \notin MatchArms -> Err("Unknown tool: " \o name)
    IN  IF parsed.ok \/ name \notin ParsingArms THEN parsed
        ELSE IF name = "affinity.batch_open_files"
             THEN Ok([paths |-> <<>>, app |-> NoApp])
        ELSE Err(name \o ": failed to parse arguments")

\* handle_tool_call, first statement of the arm: from_value(..).context(..)?
handle_tool_call_parse(name, arguments) ==
    LET parsed ==
          CASE name = "affinity.open_file" -> OpenFileParams(arguments)
            [] name = "affinity.export" -> ExportParams(arguments)
            [] name = "affinity.batch_open_files" -> BatchOpenFilesParams(arguments)
            [] name = "affinity.batch_export" -> BatchExportParams(arguments)
            [] name = "affinity.create_new" -> CreateNewParams(arguments)
            [] name = "affinity.apply_filter" -> ApplyFilterParams(arguments)
            [] name = "affinity.draw_pikachu" -> DrawPikachuParams(arguments)
            [] name = "canva.create_design" -> CreateDesignIn(arguments)
            [] name \in MatchArms \ ParsingArms -> Ok(NoParams)
            [] name \notin MatchArms -> Err("Unknown tool: " \o name)
    IN  IF parsed.ok \/ name \notin ParsingArms THEN parsed
        ELSE Err(name \o ": failed to parse arguments")

\* the futures the arm awaits: one for a single tool, up to 16 under join_all
handle_tool_call_tasks(name, params) ==
    CASE name = "affinity.batch_open_files" -> batch_open_files_tasks(params)
      [] name = "affinity.batch_export" -> batch_export_tasks(params)
      [] OTHER -> <<params>>

\* the first poll of one item future
task_poll(name, item) ==
    CASE name \in {"affinity.open_file", "affinity.batch_open_files"} ->
            open_file_poll(item)
      [] name \in {"affinity.export", "affinity.batch_export"} ->
            export_poll(item)
      [] name = "affinity.create_new" -> create_new_poll(item)
      [] name = "affinity.apply_filter" -> apply_filter_poll(item)
      [] name = "affinity.get_active_document" -> get_active_document_poll(item)
      [] name = "affinity.close_document" -> close_document_poll(item)
      [] name = "affinity.draw_pikachu" -> draw_pikachu_poll(item)
      [] name = "canva.create_design" -> create_design_poll(item)

\* item futures that run their process a second time when it has exited
task_retry_always(name, item) == TRUE

\* whether the item future, its process having exited, spawns another one
task_retry(name, item) ==
    name = "affinity.draw_pikachu" /\ draw_pikachu_retry(item)

\* the output of one item future once its last process has completed
task_resume(name, item) ==
    CASE name \in {"affinity.open_file", "affinity.batch_open_files"} ->
            open_file_resume(item)
      [] name \in {"affinity.export", "affinity.batch_export"} ->
            export_resume(item)
      [] name = "affinity.create_new" -> create_new_resume(item)
      [] name = "affinity.apply_filter" -> apply_filter_resume(item)
      [] name = "affinity.get_active_document" ->
            get_active_document_resume(item)
      [] name = "affinity.close_document" -> close_document_resume(item)
      [] name = "affinity.draw_pikachu" -> draw_pikachu_resume(item)

\* handle_tool_call, rest of the arm: .context(..)? on the awaited result,
\* then serde_json::to_value
handle_tool_call_finish(name, outs) ==
    CASE name = "affinity.open_file" ->
            IF outs[1].ok THEN Ok(to_value_open(outs[1].val))
            ELSE Err(name \o ": failed to open file")
      [] name = "affinity.export" ->
            IF outs[1].ok THEN Ok(to_value_export(outs[1].val))
            ELSE Err(name \o ": failed to export")
      [] name = "affinity.batch_open_files" ->
            LET result == batch_open_files(outs) IN
            IF result.ok THEN Ok(to_value_batch_open(result.val))
            ELSE Err(name \o ": batch open failed")
      [] name = "affinity.batch_export" ->
            LET result == batch_export(outs) IN
            IF result.ok THEN Ok(to_value_batch_export(result.val))
            ELSE Err(name \o ": batch export failed")
      [] name = "affinity.create_new" ->
            IF outs[1].ok THEN Ok(to_value_create(outs[1].val))
            ELSE Err(name \o ": failed to create document")
      [] name = "affinity.apply_filter" ->
            IF outs[1].ok THEN Ok(to_value_filter(outs[1].val))
            ELSE Err(name \o ": failed to apply filter")
      [] name = "affinity.get_active_document" ->
            IF outs[1].ok THEN Ok(to_value_active(outs[1].val))
            ELSE Err(name \o ": failed to get document")
      [] name = "affinity.close_document" ->
            IF outs[1].ok THEN Ok(to_value_close(outs[1].val))
            ELSE Err(name \o ": failed to close document")
      [] name = "affinity.draw_pikachu" ->
            IF outs[1].ok THEN Ok(to_value_pikachu(outs[1].val))
            ELSE Err(name \o ": failed to draw")
      [] name = "canva.create_design" ->
            IF outs[1].ok THEN Ok(to_value_design(outs[1].val))
            ELSE Err(name \o ": failed to create design")

(* ---------------------------- mcp.rs: build_server --------------------- *)

\* the response of a call: a result, a JSON-RPC error, or nothing
NoResp == [kind |-> "none"]
Success(v) == [kind |-> "result", value |-> v]
Failure(code, message) == [kind |-> "error", code |-> code, message |-> message]

\* JsonRpcError::internal_error()
internal_error == Failure(InternalErrorCode, "Internal error")

\* an InvalidParams error built without the message of its caller
invalid_params_generic(msg) == Failure(InvalidParamsCode, "Invalid params")

\* JsonRpcError::invalid_params(msg)
invalid_params(msg) == Failure(InvalidParamsCode, msg)

\* the closure with the Err arm answering a null result
tools_call_envelope_swallow(result) ==
    IF result.ok THEN Success(result.val) ELSE Success(JNull)

\* the closure with the Err arm putting the cause into the error message
tools_call_envelope_leak(result) ==
    IF result.ok THEN Success(result.val)
    ELSE Failure(InternalErrorCode, result.err)

\* the tools/call closure: match handle_tool_call(..).await { Ok / Err }
tools_call_envelope(result) ==
    IF result.ok THEN Success(result.val) ELSE internal_error

\* params_value.get("arguments").cloned().unwrap_or(Value::Null)
arguments_of(params) ==
    IF Has(params, "arguments") THEN params.o.arguments ELSE JNull

\* env::var("MCP_NAME").unwrap_or_else(|_| "affinity-mcp".into()): the
\* name when MCP_NAME is not set
ServerName == "affinity-mcp"
\* the names main can pass: the default, or the value of MCP_NAME
ServerNames == {ServerName, "studio"}

\* the initialize closure, client_name: the name under clientInfo, or under
\* client_info when clientInfo is absent; "unknown" when it is not a string
client_name(params) ==
    LET key == IF Has(params, "clientInfo") THEN "clientInfo" ELSE "client_info"
    IN  IF Has(params, key) /\ HasStr(params.o[key], "name")
        THEN params.o[key].o.name.s
        ELSE "unknown"

\* an initialize that reads protocol_version whenever protocolVersion holds
\* no string
initialize_response_any_string(params) ==
    IF HasStr(params, "protocolVersion") \/ HasStr(params, "protocol_version")
    THEN Success(JObj([protocolVersion |-> JStr("2024-11-05"),
                       serverInfo |-> JObj([name |-> JStr(server_name),
                                            version |-> JStr("0.1.0")]),
                       capabilities |-> JObj([tools |->
                             JObj([listChanged |-> JBool(FALSE)])])]))
    ELSE invalid_params("missing protocolVersion")

\* an initialize that reads the protocol version under protocolVersion only
initialize_response_camel_only(params) ==
    IF HasStr(params, "protocolVersion")
    THEN Success(JObj([protocolVersion |-> JStr("2024-11-05"),
                       serverInfo |-> JObj([name |-> JStr(server_name),
                                            version |-> JStr("0.1.0")]),
                       capabilities |-> JObj([tools |->
                             JObj([listChanged |-> JBool(FALSE)])])]))
    ELSE invalid_params("missing protocolVersion")

\* an initialize that falls back to its own protocol version when the caller
\* names none
initialize_response_defaulted(params) ==
    Success(JObj([protocolVersion |-> JStr("2024-11-05"),
                  serverInfo |-> JObj([name |-> JStr(server_name),
                                       version |-> JStr("0.1.0")]),
                  capabilities |-> JObj([tools |->
                        JObj([listChanged |-> JBool(FALSE)])])]))

\* an initialize that answers with the protocol version the caller sent
initialize_response_echo(params) ==
    IF HasStr(params, "protocolVersion")
          \/ (~Has(params, "protocolVersion") /\ HasStr(params, "protocol_version"))
    THEN Success(JObj([protocolVersion |->
                           IF Has(params, "protocolVersion")
                           THEN params.o.protocolVersion
                           ELSE params.o.protocol_version,
                       serverInfo |-> JObj([name |-> JStr(server_name),
                                            version |-> JStr("0.1.0")]),
                       capabilities |-> JObj([tools |->
                             JObj([listChanged |-> JBool(FALSE)])])]))
    ELSE invalid_params("missing protocolVersion")

\* the initialize closure
initialize_response(params) ==
    IF HasStr(params, "protocolVersion")
          \/ (~Has(params, "protocolVersion") /\ HasStr(params, "protocol_version"))
    THEN Success(JObj([protocolVersion |-> JStr("2024-11-05"),
                       serverInfo |-> JObj([name |-> JStr(server_name),
                                            version |-> JStr("0.1.0")]),
                       capabilities |-> JObj([tools |->
                             JObj([listChanged |-> JBool(FALSE)])])]))
    ELSE invalid_params("missing protocolVersion")

\* the tools/list closure
tools_list_response ==
    Success(JObj([tools |-> JArr([k \in 1..Len(get_all_tools) |->
                      JObj([name |-> JStr(get_all_tools[k].name)])])]))

(* ---------------------------- requests --------------------------------- *)

\* all sequences over S of length at most n
SeqUpTo(S, n) == UNION {[1..k -> S] : k \in 0..n}

Request(method, params) == [method |-> method, params |-> params]
CallReq(name, arguments) ==
    Request("tools/call", JObj([name |-> JStr(name), arguments |-> arguments]))

\* one well-formed entry of BatchExportParams.exports
ExportArg(path) == JObj([path |-> JStr(path), format |-> JStr("png")])
\* an entry whose format is not one of ExportFormat
BadExportArg(path) == JObj([path |-> JStr(path), format |-> JStr("bmp")])

BatchOpenReqs ==
    {CallReq("affinity.batch_open_files",
             JObj([paths |-> JArr([k \in DOMAIN ps |-> JStr(ps[k])])]))
        : ps \in SeqUpTo(Paths, MaxBatch)}
    \cup
    {CallReq("affinity.batch_open_files",
             JObj([paths |-> JArr([k \in DOMAIN ps |-> JStr(ps[k])]),
                   app |-> JStr("Publisher")]))
        : ps \in SeqUpTo(Paths, 1)}

BatchExportReqs ==
    {CallReq("affinity.batch_export",
             JObj([exports |-> JArr([k \in DOMAIN ps |-> ExportArg(ps[k])])]))
        : ps \in SeqUpTo(Paths, MaxBatch)}

SingleReqs ==
    {CallReq("affinity.open_file", JObj([path |-> JStr(p)])) : p \in Paths}
    \cup
    {CallReq("affinity.export",
             JObj([path |-> JStr(p), format |-> JStr("pdf"),
                   quality |-> JNum(80)])) : p \in Paths}

\* calls that fail before any future is created
RejectedReqs ==
    { CallReq("affinity.nope", JNull),
      CallReq("affinity.batch_open_files", JNull),
      CallReq("affinity.batch_open_files",
              JObj([paths |-> JArr(<<JStr("b"), JNum(7)>>)])),
      CallReq("affinity.batch_export",
              JObj([exports |-> JArr(<<ExportArg("b"), BadExportArg("b")>>)])),
      CallReq("affinity.open_file", JObj([app |-> JStr("Photo")])),
      Request("tools/call", JObj([arguments |-> JObj([path |-> JStr("b")])])) }

ProtocolReqs ==
    { Request("initialize", JObj([protocolVersion |-> JStr("2024-11-05")])),
      Request("initialize", JObj([protocol_version |-> JStr("2024-11-05")])),
      Request("initialize", JNull),
      Request("initialized", JNull),
      Request("tools/list", JNull) }

\* the values a client puts in a protocol-version field
VersionValues == {JStr("2024-11-05"), JStr("1.0"), JNum(1)}
\* the protocol-version fields of an initialize: none, one spelling, or both
VersionFields ==
    {<<>>}
    \cup {"protocolVersion" :> v : v \in VersionValues}
    \cup {"protocol_version" :> v : v \in VersionValues}
    \cup {("protocolVersion" :> JNum(1)) @@ ("protocol_version" :> JStr("1.0"))}
    \cup {("protocolVersion" :> JStr("1.0")) @@ ("protocol_version" :> JNum(1))}
    \cup {("protocolVersion" :> JNull) @@ ("protocol_version" :> JStr("1.0"))}

\* the values a client puts in a client-info field
ClientValues == {JObj([name |-> JStr("inspector")]), JStr("inspector")}
ClientFields ==
    {<<>>}
    \cup {"clientInfo" :> c : c \in ClientValues}
    \cup {"client_info" :> c : c \in ClientValues}

InitializeReqs ==
    {Request("initialize", JObj(pv @@ ci)) :
        pv \in VersionFields, ci \in ClientFields}
    \cup {Request("initialize", JNull)}

\* the handshake in every spelling, the catalog, and one call of each ending
ProtocolFamilyReqs ==
    InitializeReqs
    \cup { Request("initialized", JNull),
           Request("initialized", JObj([protocolVersion |-> JStr("1.0")])),
           Request("tools/list", JNull),
           Request("tools/list", JObj([cursor |-> JStr("1")])),
           CallReq("affinity.nope", JNull),
           CallReq("affinity.open_file", JObj([app |-> JStr("Photo")])),
           CallReq("affinity.open_file", JObj([path |-> JStr("a.AFDESIGN")])),
           CallReq("affinity.batch_open_files",
                   JObj([paths |-> JArr(<<JStr("a.AFDESIGN"), JStr("b")>>)])),
           Request("tools/call", JObj([arguments |-> JNull])) }

\* the request family of the small specification
SmallReqs ==
    BatchOpenReqs \cup BatchExportReqs \cup SingleReqs \cup RejectedReqs
        \cup ProtocolReqs

\* the k-th path of an oversized batch
PathAt(k) == IF k % 2 = 1 THEN "a.AFDESIGN" ELSE "b"

\* batches of more than BatchLimit items, and one short batch
OversizeReqs ==
    {CallReq("affinity.batch_open_files",
             JObj([paths |-> JArr([k \in 1..n |-> JStr(PathAt(k))])]))
        : n \in (BatchLimit + 1)..(BatchLimit + MaxExtra)}
    \cup
    {CallReq("affinity.batch_export",
             JObj([exports |-> JArr([k \in 1..n |-> ExportArg(PathAt(k))])]))
        : n \in (BatchLimit + 1)..(BatchLimit + MaxExtra)}
    \cup
    { CallReq("affinity.batch_open_files",
              JObj([paths |-> JArr(<<JStr("b"), JStr("a.AFDESIGN")>>)])) }

\* names a client may try that get_all_tools does not list: a function of
\* affinity.rs without a match arm, a respelled name, the empty name
UnlistedNames ==
    {"affinity.draw_shape", "affinity.nope", "AFFINITY.OPEN_FILE", ""}

\* one call of every tool of the catalog whose arguments deserialize
WellFormedReqs ==
    {CallReq("affinity.open_file", JObj([path |-> JStr(p)])) : p \in Paths}
    \cup {CallReq("affinity.draw_pikachu", JObj([output_path |-> JStr(p)]))
             : p \in Paths}
    \cup { CallReq("affinity.draw_pikachu", JObj(<<>>)),
           CallReq("affinity.create_new",
                   JObj([app |-> JStr("Designer"), width |-> JNum(800)])),
           CallReq("affinity.export",
                   JObj([path |-> JStr("b"), format |-> JStr("pdf")])),
           CallReq("affinity.apply_filter",
                   JObj([filter_name |-> JStr("blur"), intensity |-> JNum(50)])),
           CallReq("affinity.get_active_document", JNull),
           CallReq("affinity.close_document", JNum(7)),
           CallReq("affinity.batch_open_files",
                   JObj([paths |-> JArr(<<JStr("a.AFDESIGN"), JStr("b")>>)])),
           CallReq("affinity.batch_export",
                   JObj([exports |-> JArr(<<ExportArg("a.AFDESIGN"),
                                            ExportArg("b")>>)])),
           CallReq("canva.create_design", JObj([title |-> JStr("poster")])) }

\* calls of listed tools whose arguments do not deserialize; in the batches
\* one element is malformed and the others are not
MalformedReqs ==
    { CallReq("affinity.open_file", JObj([app |-> JStr("Photo")])),
      CallReq("affinity.create_new", JObj([app |-> JStr("Paint")])),
      CallReq("affinity.export", JObj([path |-> JStr("b")])),
      CallReq("affinity.apply_filter", JObj([intensity |-> JNum(300)])),
      CallReq("affinity.draw_pikachu", JObj([output_path |-> JNum(7)])),
      CallReq("canva.create_design", JNull),
      CallReq("affinity.batch_open_files",
              JObj([paths |-> JArr(<<JStr("a.AFDESIGN"), JNum(7)>>)])),
      CallReq("affinity.batch_export",
              JObj([exports |-> JArr(<<ExportArg("a.AFDESIGN"),
                                       BadExportArg("b")>>)])),
      CallReq("affinity.batch_export",
              JObj([exports |-> JArr(<<JObj([path |-> JStr("a.AFDESIGN")]),
                                       ExportArg("b")>>)])),
      CallReq("affinity.batch_export",
              JObj([exports |-> JArr(<<ExportArg("b"),
                                       JObj([format |-> JStr("png")]),
                                       ExportArg("a.AFDESIGN")>>)])) }

\* tools/call whose parameters carry no string under "name"
NamelessReqs ==
    { Request("tools/call", JObj([arguments |-> JObj([path |-> JStr("b")])])),
      Request("tools/call",
              JObj([name |-> JNum(7), arguments |-> JObj([path |-> JStr("b")])])),
      Request("tools/call", JObj([name |-> JNull])),
      Request("tools/call", JNull) }

\* every tool of the catalog called well and badly, names outside the
\* catalog, calls without a name, and the handshake
ToolsFamilyReqs ==
    WellFormedReqs \cup MalformedReqs \cup NamelessReqs
        \cup {CallReq(n, JObj([path |-> JStr("b")])) : n \in UnlistedNames}
        \cup { Request("initialize", JObj([protocolVersion |-> JStr("1.0")])),
               Request("initialized", JNull),
               Request("tools/list", JNull) }

\* paths with each suffix in several spellings, with other extensions,
\* with none, and with a suffix that is not at the end
DetectPaths ==
    {"a.afphoto", "a.AFPHOTO", "a.AfPhoto", ".afphoto",
     "a.afdesign", "a.AFDESIGN", "a.afDesign", "dir.afpub/a.AFdesign",
     "a.afpub", "a.AFPUB", "a.Afpub", "a.afphoto.afpub",
     "a.png", "a.PDF", "a", "", "afphoto", "a.afphot", "a.afdesigns",
     "a.afpub.bak", "a.afdesign/b", "a.afpub ", "A.AFDESIGN.PNG"}

\* open_file on each of them, the application left to be inferred
DetectReqs ==
    {CallReq("affinity.open_file", JObj([path |-> JStr(p)])) : p \in DetectPaths}

(* ---------------------------- the server ------------------------------- *)

\* the requests the client of this behaviour may send
Requests ==
    CASE reqs = "small" -> SmallReqs
      [] reqs = "oversize" -> OversizeReqs
      [] reqs = "protocol" -> ProtocolFamilyReqs
      [] reqs = "batch" -> BatchOpenReqs \cup BatchExportReqs
      [] reqs = "tools" -> ToolsFamilyReqs
      [] reqs = "detect" -> DetectReqs

NoReq == Request("none", JNull)

\* params_value.get("name").and_then(|v| v.as_str()), when it is Some
name_of(r) == r.params.o.name.s

\* try_join_all in place of join_all: the first error becomes every output
try_join_all(slots) ==
    IF \E k \in DOMAIN slots : ~slots[k].out.ok
    THEN [k \in DOMAIN slots |->
             slots[CHOOSE j \in DOMAIN slots :
                      /\ ~slots[j].out.ok
                      /\ \A i \in 1..(j - 1) : slots[i].out.ok].out]
    ELSE [k \in DOMAIN slots |-> slots[k].out]

\* the outputs collected last slot first
join_all_reversed(slots) ==
    [k \in DOMAIN slots |-> slots[Len(slots) + 1 - k].out]

\* join_all's output: the outputs of the slots, by index
join_all(slots) == [k \in DOMAIN slots |-> slots[k].out]

\* the causes the for loop of a batch tool writes with error!
item_errors(name, outs) ==
    IF name \in {"affinity.batch_open_files", "affinity.batch_export"}
    THEN {outs[k].err : k \in {j \in DOMAIN outs : ~outs[j].ok}}
    ELSE {}

\* where a call ended: "ok" (no error envelope), or the stage that failed
Classify(r, rsp) ==
    IF rsp.kind # "error" THEN "ok"
    ELSE IF r.method # "tools/call" \/ ~HasStr(r.params, "name") THEN "parse"
    ELSE IF name_of(r) \notin MatchArms THEN "routing"
    ELSE IF ~handle_tool_call_parse(name_of(r), arguments_of(r.params)).ok
         THEN "arguments"
    ELSE "action"

EnvUnchanged == UNCHANGED <<macos, world, front, reqs, server_name>>

\* the states of a call in the tools/call closure: the request is taken,
\* the name is read from the parameters, handle_tool_call is entered and
\* matches the name, the arm has returned, the result is wrapped by Ok,
\* and the closure has returned it to the transport
Lifetime == <<"Received", "Parsed", "Routed", "Executed", "Enveloped", "Sent">>

\* a request arrives while the server is idle
Accept(r) ==
    /\ pc = "idle"
    /\ served < MaxCalls
    /\ req' = r
    /\ past' = IF served = 0 THEN past ELSE past \cup {Classify(req, resp)}
    /\ EnvUnchanged

\* a reply that repeats the error envelope of the call before it
Reply_sticky(response, causes) ==
    /\ resp' = IF resp.kind = "error" THEN resp ELSE response
    /\ sent' = IF response = NoResp THEN 0 ELSE 1
    /\ diag' = causes
    /\ served' = served + 1
    /\ pc' = "idle"
    /\ items' = <<>>
    /\ elems' = <<>>
    /\ invoked' = <<>>

\* a call that completes without suspending
Reply(response, causes) ==
    /\ resp' = response
    /\ sent' = IF response = NoResp THEN 0 ELSE 1
    /\ diag' = causes
    /\ served' = served + 1
    /\ pc' = "idle"
    /\ items' = <<>>
    /\ elems' = <<>>
    /\ invoked' = <<>>

\* io.add_method("initialize", ..)
Initialize(r) ==
    /\ Accept(r)
    /\ r.method = "initialize"
    /\ Reply(initialize_response(r.params), {})
    /\ stage' = <<>>

\* "initialized" registered with add_method: it is answered with null
Initialized_answered(r) ==
    /\ Accept(r)
    /\ r.method = "initialized"
    /\ Reply(Success(JNull), {})
    /\ stage' = <<>>

\* io.add_notification("initialized", ..)
Initialized(r) ==
    /\ Accept(r)
    /\ r.method = "initialized"
    /\ Reply(NoResp, {})
    /\ stage' = <<>>

\* io.add_method("tools/list", ..)
ToolsList(r) ==
    /\ Accept(r)
    /\ r.method = "tools/list"
    /\ Reply(tools_list_response, {})
    /\ stage' = <<>>

\* a closure that resolves the name in a registry before it enters the
\* handler: a call of an unknown tool ends at Routed
ToolsCallRejected_at_lookup(r) ==
    /\ Accept(r)
    /\ r.method = "tools/call"
    /\ IF ~HasStr(r.params, "name")
       THEN /\ Reply(invalid_params("missing tool name"), {})
            /\ stage' = SubSeq(Lifetime, 1, 2)
       ELSE LET parsed == handle_tool_call_parse(name_of(r),
                                                 arguments_of(r.params))
            IN  /\ ~parsed.ok
                /\ Reply(tools_call_envelope(parsed), {parsed.err})
                /\ stage' = IF name_of(r) \in MatchArms
                            THEN SubSeq(Lifetime, 1, 4)
                            ELSE SubSeq(Lifetime, 1, 3)

\* io.add_method("tools/call", ..): the call ends before any future exists
ToolsCallRejected(r) ==
    /\ Accept(r)
    /\ r.method = "tools/call"
    /\ IF ~HasStr(r.params, "name")
       THEN /\ Reply(invalid_params("missing tool name"), {})
            /\ stage' = SubSeq(Lifetime, 1, 2)
       ELSE LET parsed == handle_tool_call_parse(name_of(r),
                                                 arguments_of(r.params))
            IN  /\ ~parsed.ok
                /\ Reply(tools_call_envelope(parsed), {parsed.err})
                /\ stage' = SubSeq(Lifetime, 1, 4)

\* io.add_method("tools/call", ..): the arguments deserialize, the futures
\* are created and join_all polls each of them once, in index order
ToolsCallStart(r) ==
    /\ Accept(r)
    /\ r.method = "tools/call"
    /\ HasStr(r.params, "name")
    /\ LET name == name_of(r)
           parsed == handle_tool_call_parse(name, arguments_of(r.params))
       IN  /\ parsed.ok
           /\ LET tasks == handle_tool_call_tasks(name, parsed.val)
                  polled == [k \in DOMAIN tasks |-> task_poll(name, tasks[k])]
              IN  /\ items' = tasks
                  /\ elems' = polled
                  /\ invoked' = SelectSeq([k \in DOMAIN tasks |-> k],
                                          LAMBDA k : polled[k] = Pending)
                  /\ diag' = IF macos \/ tasks = <<>>
                                      \/ name = "canva.create_design" THEN {}
                             ELSE {"unsupported on this platform"}
    /\ pc' = "await"
    /\ resp' = NoResp
    /\ sent' = 0
    /\ stage' = SubSeq(Lifetime, 1, 3)
    /\ UNCHANGED served

\* the number of external processes item k has spawned so far
spawned(k) == Cardinality({i \in DOMAIN invoked : invoked[i] = k})

\* the items awaited one after the other: item k completes only when the
\* items before it have
ActionComplete_in_turn(k) ==
    /\ pc = "await"
    /\ k \in DOMAIN elems
    /\ elems[k] = Pending
    /\ \A j \in 1..(k - 1) : elems[j].st = "ready"
    /\ IF task_retry(name_of(req), items[k]) /\ spawned(k) = 1
       THEN /\ invoked' = Append(invoked, k)
            /\ UNCHANGED elems
       ELSE /\ elems' = [elems EXCEPT
                            ![k] = Ready(task_resume(name_of(req), items[k]))]
            /\ UNCHANGED invoked
    /\ UNCHANGED <<macos, world, front, reqs, server_name, pc, req, items,
                   resp, sent, diag, served, past, stage>>

\* the process of item k exits; the item future spawns its next process
\* or completes into its slot
ActionComplete(k) ==
    /\ pc = "await"
    /\ k \in DOMAIN elems
    /\ elems[k] = Pending
    /\ IF task_retry(name_of(req), items[k]) /\ spawned(k) = 1
       THEN /\ invoked' = Append(invoked, k)
            /\ UNCHANGED elems
       ELSE /\ elems' = [elems EXCEPT
                            ![k] = Ready(task_resume(name_of(req), items[k]))]
            /\ UNCHANGED invoked
    /\ UNCHANGED <<macos, world, front, reqs, server_name, pc, req, items,
                   resp, sent, diag, served, past, stage>>

\* join_all under a timeout: the call returns while items are in flight
\* and their slots are read as errors
ToolsCallFinish_timeout ==
    /\ pc = "await"
    /\ LET name == name_of(req)
           outs == [k \in DOMAIN elems |->
                       IF elems[k].st = "ready" THEN elems[k].out
                       ELSE Err("timed out")]
           result == handle_tool_call_finish(name, outs)
       IN  /\ resp' = tools_call_envelope(result)
           /\ diag' = diag \cup item_errors(name, outs)
                           \cup (IF result.ok THEN {} ELSE {result.err})
           /\ stage' = IF result.ok THEN Lifetime ELSE SubSeq(Lifetime, 1, 4)
    /\ sent' = sent + 1
    /\ pc' = "idle"
    /\ served' = served + 1
    /\ UNCHANGED <<macos, world, front, reqs, server_name, req, items, elems, invoked,
                   past>>

\* every slot is filled: join_all returns, the handler folds the outputs
\* and the tools/call closure sends the envelope
ToolsCallFinish ==
    /\ pc = "await"
    /\ \A k \in DOMAIN elems : elems[k].st = "ready"
    /\ LET name == name_of(req)
           outs == join_all(elems)
           result == handle_tool_call_finish(name, outs)
       IN  /\ resp' = tools_call_envelope(result)
           /\ diag' = diag \cup item_errors(name, outs)
                           \cup (IF result.ok THEN {} ELSE {result.err})
           /\ stage' = IF result.ok THEN Lifetime ELSE SubSeq(Lifetime, 1, 4)
    /\ sent' = sent + 1
    /\ pc' = "idle"
    /\ served' = served + 1
    /\ UNCHANGED <<macos, world, front, reqs, server_name, req, items, elems, invoked,
                   past>>

\* the build without osascript never consults the file system or a script
Worlds(os) == IF os THEN [Paths -> Fates] ELSE {[p \in Paths |-> "ok"]}

Init ==
    /\ macos \in BOOLEAN
    /\ world \in Worlds(macos)
    /\ reqs = "small"
    /\ server_name = ServerName
    /\ front = "document"
    /\ pc = "idle"
    /\ req = NoReq
    /\ items = <<>>
    /\ elems = <<>>
    /\ invoked = <<>>
    /\ resp = NoResp
    /\ sent = 0
    /\ diag = {}
    /\ served = 0
    /\ past = {}
    /\ stage = <<>>

\* the server started for a client that sends oversized batches
InitTrunc ==
    /\ macos \in BOOLEAN
    /\ world = [p \in Paths |-> IF p = "b" THEN "nofile" ELSE "ok"]
    /\ reqs = "oversize"
    /\ server_name = ServerName
    /\ front = "document"
    /\ pc = "idle"
    /\ req = NoReq
    /\ items = <<>>
    /\ elems = <<>>
    /\ invoked = <<>>
    /\ resp = NoResp
    /\ sent = 0
    /\ diag = {}
    /\ served = 0
    /\ past = {}
    /\ stage = <<>>

\* the server started under either name for a client that exercises the
\* handshake
InitProtocol ==
    /\ macos \in BOOLEAN
    /\ world = [p \in Paths |-> IF p = "b" THEN "nofile" ELSE "ok"]
    /\ reqs = "protocol"
    /\ server_name \in ServerNames
    /\ front = "document"
    /\ pc = "idle"
    /\ req = NoReq
    /\ items = <<>>
    /\ elems = <<>>
    /\ invoked = <<>>
    /\ resp = NoResp
    /\ sent = 0
    /\ diag = {}
    /\ served = 0
    /\ past = {}
    /\ stage = <<>>

\* the server started for a client that calls every tool, on either build
\* and whatever the file system and the applications do
InitTools ==
    /\ macos \in BOOLEAN
    /\ world \in Worlds(macos)
    /\ front \in (IF macos THEN FrontFates ELSE {"document"})
    /\ reqs = "tools"
    /\ server_name = ServerName
    /\ pc = "idle"
    /\ req = NoReq
    /\ items = <<>>
    /\ elems = <<>>
    /\ invoked = <<>>
    /\ resp = NoResp
    /\ sent = 0
    /\ diag = {}
    /\ served = 0
    /\ past = {}
    /\ stage = <<>>

Next ==
    \/ \E r \in Requests : Initialize(r)
    \/ \E r \in Requests : Initialized(r)
    \/ \E r \in Requests : ToolsList(r)
    \/ \E r \in Requests : ToolsCallRejected(r)
    \/ \E r \in Requests : ToolsCallStart(r)
    \/ \E k \in 1..BatchLimit : ActionComplete(k)
    \/ ToolsCallFinish

Spec == Init /\ [][Next]_vars

SpecProtocol == InitProtocol /\ [][Next]_vars

SpecTools == InitTools /\ [][Next]_vars

\* the steps of a client that only sends well-formed batch calls
NextBatch ==
    \/ \E r \in Requests : ToolsCallStart(r)
    \/ \E k \in 1..BatchLimit : ActionComplete(k)
    \/ ToolsCallFinish

SpecTrunc == InitTrunc /\ [][NextBatch]_vars

\* the server started for a client that sends well-formed batches of at
\* most MaxBatch items
InitLive ==
    /\ macos \in BOOLEAN
    /\ world \in Worlds(macos)
    /\ reqs = "batch"
    /\ server_name = ServerName
    /\ front = "document"
    /\ pc = "idle"
    /\ req = NoReq
    /\ items = <<>>
    /\ elems = <<>>
    /\ invoked = <<>>
    /\ resp = NoResp
    /\ sent = 0
    /\ diag = {}
    /\ served = 0
    /\ past = {}
    /\ stage = <<>>

\* the macOS server, every file present and every script succeeding, for a
\* client that opens files without naming the application
InitDetect ==
    /\ macos = TRUE
    /\ world = [p \in Paths \cup DetectPaths |-> "ok"]
    /\ front = "document"
    /\ reqs = "detect"
    /\ server_name = ServerName
    /\ pc = "idle"
    /\ req = NoReq
    /\ items = <<>>
    /\ elems = <<>>
    /\ invoked = <<>>
    /\ resp = NoResp
    /\ sent = 0
    /\ diag = {}
    /\ served = 0
    /\ past = {}
    /\ stage = <<>>

SpecDetect == InitDetect /\ [][NextBatch]_vars

\* every osascript that was spawned exits, and the runtime polls join_all
\* again once every slot is filled
Fairness ==
    /\ \A k \in 1..BatchLimit : WF_vars(ActionComplete(k))
    /\ WF_vars(ToolsCallFinish)

SpecLive == InitLive /\ [][NextBatch]_vars /\ Fairness

TypeOK ==
    /\ pc \in {"idle", "await"}
    /\ served \in 0..MaxCalls
    /\ Len(items) = Len(elems)
    /\ Len(elems) <= BatchLimit

(* ---------------------------- reading requests and responses ---------- *)

BatchTools == {"affinity.batch_open_files", "affinity.batch_export"}

\* r is a tools/call of a batch tool whose arguments deserialize
IsBatchCall(r) ==
    /\ r.method = "tools/call"
    /\ HasStr(r.params, "name")
    /\ name_of(r) \in BatchTools
    /\ handle_tool_call_parse(name_of(r), arguments_of(r.params)).ok

\* the item list of a batch request, as sent
InputItems(r) ==
    IF name_of(r) = "affinity.batch_open_files"
    THEN r.params.o.arguments.o.paths.a
    ELSE r.params.o.arguments.o.exports.a

\* the path of input item i of a batch request, as sent
InputPath(r, i) ==
    IF name_of(r) = "affinity.batch_open_files"
    THEN InputItems(r)[i].s
    ELSE InputItems(r)[i].o.path.s

\* the fields of a returned batch result
Results(rsp) == rsp.value.o.results.a
SuccessCount(rsp) == rsp.value.o.success_count.n
FailureCount(rsp) == rsp.value.o.failure_count.n
\* the opened / exported flag of one result
Flag(result) ==
    IF "opened" \in DOMAIN result.o THEN result.o.opened.b
    ELSE result.o.exported.b

Min(a, b) == IF a < b THEN a ELSE b
Range(f) == {f[k] : k \in DOMAIN f}

\* the last call was a batch call and it returned a batch result
BatchReturned ==
    /\ pc = "idle"
    /\ IsBatchCall(req)
    /\ resp.kind = "result"

\* the action of item k of the batch that returned ended in an error
ItemFailed(k) == ~elems[k].out.ok

(* ---------------------------- order of results ------------------------ *)

\* C1: for every batch call with at most 16 items, whatever the order in
\* which the items' actions complete, the batch result has one result per
\* input item and results[i] carries the path of input item i.
C1_ResultCarriesItemPath ==
    (BatchReturned /\ Len(InputItems(req)) <= BatchLimit) =>
        /\ Len(Results(resp)) = Len(InputItems(req))
        /\ \A i \in 1..Len(InputItems(req)) :
              Results(resp)[i].o.path.s = InputPath(req, i)

(* ---------------------------- truncation ------------------------------- *)

\* C2: a batch call with more than 16 items is not an error: its futures
\* are the first 16 input items in input order, no osascript is ever
\* spawned for an item beyond the 16th, and the call returns a batch result
\* with exactly 16 results.
C2_Truncation ==
    (IsBatchCall(req) /\ Len(InputItems(req)) > BatchLimit) =>
        /\ Len(items) = BatchLimit
        /\ \A k \in 1..Len(items) : items[k].path = InputPath(req, k)
        /\ \A k \in Range(invoked) : k <= BatchLimit
        /\ (macos /\ name_of(req) = "affinity.batch_export")
              => invoked = [k \in 1..BatchLimit |-> k]
        /\ pc = "idle" =>
              /\ resp.kind = "result"
              /\ Len(Results(resp)) = BatchLimit

\* an oversized batch has returned after spawning 16 actions
C2_Witness ==
    /\ BatchReturned
    /\ Len(InputItems(req)) > BatchLimit
    /\ Len(invoked) = BatchLimit

(* ---------------------------- counts ----------------------------------- *)

\* C3: in every returned batch result, whatever mix of successes, failures
\* and errors occurred, success_count + failure_count = len(results).
C3_CountsSumToLength ==
    BatchReturned =>
        SuccessCount(resp) + FailureCount(resp) = Len(Results(resp))

\* a batch returned in which one item succeeded and another ended in an error
C3_Witness ==
    /\ BatchReturned
    /\ SuccessCount(resp) >= 1
    /\ \E k \in DOMAIN elems : ItemFailed(k)

(* ---------------------------- isolation -------------------------------- *)

\* the output of one item future run on its own
Outcome(name, item) ==
    LET polled == task_poll(name, item) IN
    IF polled.st = "ready" THEN polled.out ELSE task_resume(name, item)

\* the envelope of a call of the tool on the given items with nothing else
\* in flight
RunAlone(name, its) ==
    tools_call_envelope(
        handle_tool_call_finish(name, [k \in DOMAIN its |-> Outcome(name, its[k])]))

\* the sequence without its j-th element
Remove(seq, j) ==
    [k \in 1..(Len(seq) - 1) |-> IF k < j THEN seq[k] ELSE seq[k + 1]]

\* C4: when the action of item j of a batch ends in an error, the result
\* slot of every other item i equals the slot that item gets in the batch
\* run without item j, and item i's osascript was spawned exactly when it
\* would have been on its own.
C4_Isolation ==
    BatchReturned =>
        \A j \in DOMAIN elems : ItemFailed(j) =>
            LET without == RunAlone(name_of(req), Remove(items, j)) IN
            /\ Len(Results(resp)) = Len(items)
            /\ without.kind = "result"
            /\ \A i \in DOMAIN items \ {j} :
                  /\ Results(resp)[i]
                        = Results(without)[IF i < j THEN i ELSE i - 1]
                  /\ (i \in Range(invoked))
                        <=> (task_poll(name_of(req), items[i]) = Pending)

\* a batch of three returned in which an item that ended in an error sits
\* before an item that succeeded
C4_Witness ==
    /\ BatchReturned
    /\ Len(items) = 3
    /\ \E j \in DOMAIN elems : \E i \in DOMAIN elems :
          /\ j < i
          /\ ItemFailed(j)
          /\ ~ItemFailed(i)
          /\ Flag(Results(resp)[i])

(* ---------------------------- the two-item scenario -------------------- *)

\* C5: in a batch of two items where the action succeeds for the first and
\* fails for the second, success_count = 1, failure_count = 1, results[0]
\* is a success with the first item's path and results[1] is a failure whose
\* path field echoes the second item's own path.
C5_FailedItemEchoesPath ==
    (/\ BatchReturned
     /\ Len(items) = 2
     /\ ~ItemFailed(1)
     /\ ItemFailed(2)) =>
        /\ SuccessCount(resp) = 1
        /\ FailureCount(resp) = 1
        /\ Flag(Results(resp)[1])
        /\ Results(resp)[1].o.path.s = InputPath(req, 1)
        /\ ~Flag(Results(resp)[2])
        /\ Results(resp)[2].o.path.s = InputPath(req, 2)

(* ---------------------------- item failures --------------------------- *)

\* C6: a batch call whose arguments deserialize never ends in an error
\* envelope: for any set of items whose actions fail it returns a batch
\* result in which every failed item has its own slot with the flag false,
\* and failure_count counts at least the failed items.
C6_ItemFailuresAbsorbed ==
    (pc = "idle" /\ IsBatchCall(req)) =>
        /\ resp.kind = "result"
        /\ Len(Results(resp)) = Len(elems)
        /\ \A k \in DOMAIN elems : ItemFailed(k) => ~Flag(Results(resp)[k])
        /\ FailureCount(resp)
              >= Cardinality({k \in DOMAIN elems : ItemFailed(k)})

\* a batch of at least two items returned although every action failed
C6_Witness ==
    /\ BatchReturned
    /\ Len(elems) >= 2
    /\ \A k \in DOMAIN elems : ItemFailed(k)

(* ---------------------------- length of results ------------------------ *)

\* slot i of the batch result belongs to input item i: it carries the
\* item's path when the item's action returned, and is a failure otherwise
SlotsInInputOrder ==
    \A i \in 1..Len(Results(resp)) :
        IF ItemFailed(i) THEN ~Flag(Results(resp)[i])
        ELSE Results(resp)[i].o.path.s = InputPath(req, i)

\* C7 as stated: in every returned batch result, results has the length of
\* the input item list and is in the order of the input.
C7_ResultsMatchInput ==
    BatchReturned =>
        /\ Len(Results(resp)) = Len(InputItems(req))
        /\ SlotsInInputOrder

\* C7: in every returned batch result, results has the length of the input
\* item list capped at 16, and is in the order of the first 16 input items.
C7_ResultsMatchTruncatedInput ==
    BatchReturned =>
        /\ Len(Results(resp)) = Min(Len(InputItems(req)), BatchLimit)
        /\ SlotsInInputOrder

\* an oversized batch returned with a success in slot 1 and an error in slot 2
C7_Witness ==
    /\ BatchReturned
    /\ Len(InputItems(req)) > BatchLimit
    /\ ~ItemFailed(1)
    /\ Flag(Results(resp)[1])
    /\ ItemFailed(2)

(* ---------------------------- unknown tool ----------------------------- *)

\* r is a tools/call that names a tool
NamesTool(r) == r.method = "tools/call" /\ HasStr(r.params, "name")

\* the last call is one a healthy server answers with a result, and it was
SoundReply ==
    /\ (req.method = "initialize" /\ HasStr(req.params, "protocolVersion"))
          => resp.kind = "result"
    /\ req.method = "tools/list"
          => /\ resp.kind = "result"
             /\ Len(resp.value.o.tools.a) = Len(ToolNames)
    /\ (NamesTool(req) /\ IsBatchCall(req))
          => /\ resp.kind = "result"
             /\ Len(Results(resp)) = Len(elems)
    /\ (/\ NamesTool(req)
        /\ name_of(req) \in {"affinity.open_file", "affinity.export"}
        /\ Len(elems) = 1
        /\ ~ItemFailed(1))
          => resp.kind = "result"

\* C8: a tools/call whose name is not in the catalog ends at once in an
\* error envelope with no future created and no osascript spawned, and a
\* later initialize, tools/list or tools/call of a registered tool is
\* answered with its result.
C8_UnknownToolRejected ==
    /\ (NamesTool(req) /\ name_of(req) \notin Range(ToolNames))
          => /\ pc = "idle"
             /\ resp.kind = "error"
             /\ elems = <<>>
             /\ invoked = <<>>
    /\ (pc = "idle" /\ served > 0 /\ "routing" \in past) => SoundReply

\* after a call of an unknown tool, a batch call returned a success
C8_Witness ==
    /\ "routing" \in past
    /\ BatchReturned
    /\ SuccessCount(resp) >= 1

(* ---------------------------- no state across calls -------------------- *)

\* the envelope a server that has served nothing sends for the request
FreshResponse(r) ==
    CASE r.method = "initialize" -> initialize_response(r.params)
      [] r.method = "initialized" -> NoResp
      [] r.method = "tools/list" -> tools_list_response
      [] r.method = "tools/call" ->
            IF ~HasStr(r.params, "name")
            THEN invalid_params("missing tool name")
            ELSE LET name == name_of(r)
                     parsed == handle_tool_call_parse(name, arguments_of(r.params))
                 IN  IF ~parsed.ok THEN tools_call_envelope(parsed)
                     ELSE RunAlone(name, handle_tool_call_tasks(name, parsed.val))

FailureClasses == {"parse", "routing", "arguments", "action"}

\* one request of each kind, to be sent after the calls that went before
NextCalls ==
    { Request("initialize", JObj([protocolVersion |-> JStr("2024-11-05")])),
      Request("initialized", JNull),
      Request("tools/list", JNull),
      CallReq("affinity.nope", JNull),
      CallReq("affinity.batch_open_files",
              JObj([paths |-> JArr(<<JStr("a.AFDESIGN"), JStr("b")>>)])) }

\* C9: after any sequence of calls, whichever of them failed at parsing,
\* routing, argument deserialization or action execution, the server
\* accepts every request, and the envelope of a call is the one a server
\* that has served nothing sends for the same request with the same action
\* outcomes.
C9_NoStateAcrossCalls ==
    /\ (pc = "idle" /\ served > 0) => resp = FreshResponse(req)
    /\ (pc = "idle" /\ served < MaxCalls) =>
          \A r \in NextCalls :
              ENABLED (\/ Initialize(r) \/ Initialized(r) \/ ToolsList(r)
                       \/ ToolsCallRejected(r) \/ ToolsCallStart(r))

\* after a call that failed, a batch call returned a result with a success
C9_Witness ==
    /\ past \cap FailureClasses # {}
    /\ BatchReturned
    /\ SuccessCount(resp) >= 1
    /\ served = MaxCalls

(* ---------------------------- the error envelope ----------------------- *)

\* the handler of the last call failed: unknown tool, arguments that do not
\* deserialize, or a single-item action that ended in an error
HandlerFailed ==
    /\ pc = "idle"
    /\ NamesTool(req)
    /\ \/ ~handle_tool_call_parse(name_of(req), arguments_of(req.params)).ok
       \/ /\ name_of(req) \in MatchArms \ BatchTools
          /\ ItemFailed(1)

\* C10: when the handler of a tools/call fails, and whenever a tools/call
\* that names a tool is answered with an error, the envelope is code -32603
\* with message "Internal error" for every cause, and the cause is in the
\* log and not in the envelope.
C10_GenericInternalError ==
    (HandlerFailed \/ (pc = "idle" /\ NamesTool(req) /\ resp.kind = "error")) =>
        /\ resp = [kind |-> "error", code |-> -32603, message |-> "Internal error"]
        /\ diag # {}
        /\ resp.message \notin diag

\* an action error answered after bad arguments were answered
C10_Witness ==
    /\ HandlerFailed
    /\ name_of(req) = "affinity.open_file"
    /\ Len(elems) = 1
    /\ ItemFailed(1)
    /\ "arguments" \in past

(* ---------------------------- initialize ------------------------------- *)

\* the other spelling of a parameter name of initialize
Respelled(key) ==
    CASE key = "protocolVersion" -> "protocol_version"
      [] key = "protocol_version" -> "protocolVersion"
      [] key = "clientInfo" -> "client_info"
      [] key = "client_info" -> "clientInfo"
      [] OTHER -> key

\* the same parameters with every field under its other spelling
Respell(params) ==
    IF params.t # "obj" THEN params
    ELSE JObj([key \in {Respelled(k) : k \in DOMAIN params.o} |->
                  params.o[Respelled(key)]])

\* no field of the parameters is given under both spellings
OneSpelling(params) ==
    /\ ~(Has(params, "protocolVersion") /\ Has(params, "protocol_version"))
    /\ ~(Has(params, "clientInfo") /\ Has(params, "client_info"))

\* C11: an initialize whose protocol version and client info are given
\* under one spelling each is answered with the envelope that the same
\* values under the other spelling are answered with, and the client name
\* read from them is the same.
C11_SpellingsEquivalent ==
    (pc = "idle" /\ req.method = "initialize" /\ OneSpelling(req.params)) =>
        /\ resp = initialize_response(Respell(req.params))
        /\ client_name(req.params) = client_name(Respell(req.params))

\* an initialize in snake_case was answered with a result
C11_Witness ==
    /\ pc = "idle"
    /\ req.method = "initialize"
    /\ HasStr(req.params, "protocol_version")
    /\ Has(req.params, "client_info")
    /\ client_name(req.params) = "inspector"
    /\ resp.kind = "result"


\* C12: an initialize whose parameters have no field named protocolVersion
\* and none named protocol_version is answered with one error envelope of
\* code -32602, which carries no server identity and no capabilities.
C12_MissingVersionRejected ==
    (/\ pc = "idle"
     /\ req.method = "initialize"
     /\ ~Has(req.params, "protocolVersion")
     /\ ~Has(req.params, "protocol_version")) =>
        /\ resp.kind = "error"
        /\ resp.code = -32602
        /\ DOMAIN resp = {"kind", "code", "message"}
        /\ sent = 1

\* an initialize that named its client and no protocol version was answered
C12_Witness ==
    /\ pc = "idle"
    /\ req.method = "initialize"
    /\ Has(req.params, "clientInfo")
    /\ ~Has(req.params, "protocolVersion")
    /\ ~Has(req.params, "protocol_version")
    /\ resp.kind = "error"

\* C13: every result of initialize is protocol version "2024-11-05", the
\* name the server was started with, version "0.1.0" and listChanged false,
\* whatever the caller sent; the server writes response envelopes only, at
\* most one per call, and never a notification.
C13_FixedInitializeResult ==
    /\ (pc = "idle" /\ req.method = "initialize" /\ resp.kind = "result") =>
          resp.value =
            [t |-> "obj",
             o |-> [protocolVersion |-> [t |-> "str", s |-> "2024-11-05"],
                    serverInfo |->
                        [t |-> "obj",
                         o |-> [name |-> [t |-> "str", s |-> server_name],
                                version |-> [t |-> "str", s |-> "0.1.0"]]],
                    capabilities |->
                        [t |-> "obj",
                         o |-> [tools |->
                             [t |-> "obj",
                              o |-> [listChanged |->
                                         [t |-> "bool", b |-> FALSE]]]]]]]
    /\ resp.kind \in {"none", "result", "error"}
    /\ sent \in {0, 1}
    /\ server_name \in ServerNames

\* a server started under another name answered an initialize that named
\* another protocol version and a client
C13_Witness ==
    /\ pc = "idle"
    /\ req.method = "initialize"
    /\ server_name # ServerName
    /\ HasStr(req.params, "protocolVersion")
    /\ req.params.o.protocolVersion.s # "2024-11-05"
    /\ client_name(req.params) = "inspector"
    /\ resp.kind = "result"


(* ---------------------------- the catalog ------------------------------ *)

\* C14: in every state, whatever calls were served before and however they
\* ended, the catalog is the ten descriptors in the order they are pushed,
\* and every tools/list is answered with exactly that sequence.
C14_CatalogFixed ==
    /\ get_all_tools = [k \in 1..10 |-> [name |-> ToolNames[k]]]
    /\ (pc = "idle" /\ req.method = "tools/list") =>
          /\ resp.kind = "result"
          /\ resp.value.o.tools.a =
                [k \in 1..10 |-> JObj([name |-> JStr(ToolNames[k])])]
          /\ resp.value.o.tools.a[1].o.name.s = "affinity.open_file"
          /\ resp.value.o.tools.a[10].o.name.s = "canva.create_design"

\* a tools/list was answered after a call that ended in an error
C14_Witness ==
    /\ pc = "idle"
    /\ req.method = "tools/list"
    /\ resp.kind = "result"
    /\ past \cap FailureClasses # {}


(* ---------------------------- envelopes per call ----------------------- *)

\* C15: an initialized notification, whatever its parameters, is served
\* without writing an envelope, creating a future or spawning an osascript;
\* a call of initialize, tools/list or tools/call has written no envelope
\* while it is suspended and exactly one when it has ended.
C15_OneEnvelopePerCall ==
    /\ req.method = "initialized" =>
          /\ pc = "idle"
          /\ resp = NoResp
          /\ sent = 0
          /\ elems = <<>>
          /\ invoked = <<>>
    /\ (pc = "idle" /\ req.method \in {"initialize", "tools/list", "tools/call"}) =>
          /\ sent = 1
          /\ resp.kind \in {"result", "error"}
    /\ pc = "await" => (sent = 0 /\ resp = NoResp)

\* an initialized notification with parameters was served after a call
\* that was answered
C15_Witness ==
    /\ pc = "idle"
    /\ req.method = "initialized"
    /\ req.params # JNull
    /\ served = MaxCalls
    /\ sent = 0


(* ---------------------------- arguments -------------------------------- *)

\* the arguments of r do not have the shape of the tool r names
BadArguments(r) ==
    /\ NamesTool(r)
    /\ LET arguments == arguments_of(r.params) IN
       CASE name_of(r) = "affinity.open_file" -> ~OpenFileParams(arguments).ok
         [] name_of(r) = "affinity.export" -> ~ExportParams(arguments).ok
         [] name_of(r) = "affinity.batch_open_files" ->
                ~BatchOpenFilesParams(arguments).ok
         [] name_of(r) = "affinity.batch_export" ->
                ~BatchExportParams(arguments).ok
         [] OTHER -> FALSE

\* C16: a tools/call whose arguments do not deserialize into the request
\* shape of the tool it names ends at once in an error envelope; no future
\* is created and no osascript is spawned for it, not even for the items of
\* a batch that come before the malformed one.
C16_BadArgumentsRejected ==
    BadArguments(req) =>
        /\ pc = "idle"
        /\ resp.kind = "error"
        /\ sent = 1
        /\ items = <<>>
        /\ elems = <<>>
        /\ invoked = <<>>

\* a batch whose second item is malformed was rejected on a server that
\* spawns osascript
C16_Witness ==
    /\ macos
    /\ pc = "idle"
    /\ BadArguments(req)
    /\ name_of(req) \in BatchTools
    /\ arguments_of(req.params) # JNull
    /\ resp.kind = "error"


(* ---------------------------- what the counts count -------------------- *)

\* the positions of a returned batch result whose flag is b
Flagged(rsp, b) == {k \in 1..Len(Results(rsp)) : Flag(Results(rsp)[k]) = b}

\* C17: in every returned batch result, success_count is the number of
\* results whose opened / exported flag is true and failure_count the number
\* whose flag is false; a result of an item that returned Ok with the flag
\* false is among those counted by failure_count.
C17_CountsFollowFlags ==
    BatchReturned =>
        /\ SuccessCount(resp) = Cardinality(Flagged(resp, TRUE))
        /\ FailureCount(resp) = Cardinality(Flagged(resp, FALSE))
        /\ \A k \in DOMAIN elems :
              (elems[k].out.ok /\ ~Flag(Results(resp)[k])) =>
                  /\ k \in Flagged(resp, FALSE)
                  /\ FailureCount(resp) >= 1

\* a batch export returned in which an item ended without error and with
\* its flag false
C17_Witness ==
    /\ BatchReturned
    /\ name_of(req) = "affinity.batch_export"
    /\ Len(elems) >= 2
    /\ \E k \in DOMAIN elems :
          /\ elems[k].out.ok
          /\ ~Flag(Results(resp)[k])
    /\ FailureCount(resp) = Len(elems)


(* ---------------------------- concurrency ------------------------------ *)

\* the items whose osascript was spawned and has not exited
InFlight == {k \in Range(invoked) : elems[k] = Pending}

\* C18: in every state of a batch call, of whatever input length, at most
\* 16 osascript processes of the call have been spawned and not exited.
C18_AtMostSixteenInFlight ==
    /\ Cardinality(InFlight) <= 16
    /\ Len(invoked) <= 16
    /\ \A k \in DOMAIN elems : elems[k] = Pending => k \in InFlight

\* a batch of more than 16 items with 16 actions in flight
C18_Witness ==
    /\ pc = "await"
    /\ IsBatchCall(req)
    /\ Len(InputItems(req)) > BatchLimit
    /\ Cardinality(InFlight) = BatchLimit


\* C19: while a batch call is suspended, every item that needs an osascript
\* has had it spawned, whichever items have completed, and each item in
\* flight can complete next whatever the other items do: no item waits for
\* another.
C19_NoQueueing ==
    (pc = "await" /\ IsBatchCall(req)) =>
        /\ Range(invoked) =
              {k \in DOMAIN items : task_poll(name_of(req), items[k]) = Pending}
        /\ \A k \in DOMAIN elems :
              elems[k] = Pending =>
                  /\ k \in Range(invoked)
                  /\ ENABLED ActionComplete(k)

\* a batch of MaxBatch items, all spawned, in which the first item is still
\* in flight and every other item has completed
C19_Witness ==
    /\ pc = "await"
    /\ IsBatchCall(req)
    /\ Len(InputItems(req)) = MaxBatch
    /\ Len(invoked) = MaxBatch
    /\ elems[1] = Pending
    /\ \A k \in 2..MaxBatch : elems[k].st = "ready"


(* ---------------------------- when a batch returns --------------------- *)

\* C20: while an item of a batch call is in flight the call is suspended
\* and has written no envelope, the step that ends the call is taken with
\* every slot filled, and when every osascript that was spawned exits the
\* suspended call ends.
C20_ReturnsAfterEveryItem ==
    /\ []((IsBatchCall(req) /\ \E k \in DOMAIN elems : elems[k] = Pending) =>
              (pc = "await" /\ resp = NoResp /\ sent = 0))
    /\ [][(IsBatchCall(req) /\ pc = "await" /\ pc' = "idle") =>
              (/\ \A k \in DOMAIN elems : elems[k].st = "ready"
               /\ elems' = elems
               /\ resp'.kind = "result")]_vars
    /\ ((pc = "await" /\ IsBatchCall(req)) ~> (pc = "idle" /\ sent = 1))

\* a batch of MaxBatch items, all of which had an osascript spawned, has
\* returned
C20_Witness ==
    /\ BatchReturned
    /\ Len(elems) = MaxBatch
    /\ Len(invoked) = MaxBatch
    /\ \A k \in DOMAIN elems : elems[k].st = "ready"


(* ---------------------------- a failed action -------------------------- *)

\* the last call named a tool, its arguments deserialized, it has ended
\* and the action of one of its items ended in an error
ActionFailed ==
    /\ pc = "idle"
    /\ NamesTool(req)
    /\ handle_tool_call_parse(name_of(req), arguments_of(req.params)).ok
    /\ \E k \in DOMAIN elems : ItemFailed(k)

\* C22: when the action of a tool call fails, the call is still answered
\* with a result that carries the failure as an outcome, not with an error
\* envelope.
C22_ActionFailureIsOutcome ==
    ActionFailed => resp.kind = "result"


(* ---------------------------- precedence of spellings ------------------ *)

\* C30: in initialize, when protocolVersion is present its value alone
\* decides: the call is answered with a result when it is a string and
\* with the error -32602 when it is not, whatever protocol_version holds;
\* protocol_version decides only when protocolVersion is absent.
C30_CamelCaseFirst ==
    (pc = "idle" /\ req.method = "initialize") =>
        /\ Has(req.params, "protocolVersion") =>
              /\ resp.kind = "result" <=> req.params.o.protocolVersion.t = "str"
              /\ resp.kind = "error" <=> req.params.o.protocolVersion.t # "str"
        /\ ~Has(req.params, "protocolVersion") =>
              (resp.kind = "result" <=> HasStr(req.params, "protocol_version"))
        /\ resp.kind = "error" => resp.code = -32602

\* an initialize with a number under protocolVersion and a string under
\* protocol_version was answered with an error
C30_Witness ==
    /\ pc = "idle"
    /\ req.method = "initialize"
    /\ Has(req.params, "protocolVersion")
    /\ req.params.o.protocolVersion.t = "num"
    /\ HasStr(req.params, "protocol_version")
    /\ resp.kind = "error"


(* ---------------------------- the build without osascript -------------- *)

\* C26: on a build without osascript every item future ends at its first
\* poll without error and without a process: open_file with opened false,
\* app "Unsupported" and its own path, export with exported false and its
\* own path; a batch of N items returns success_count 0, failure_count
\* min(N, 16) and results[i] with the path of input item i.
C26_UnsupportedOutcome ==
    (~macos /\ NamesTool(req) /\ name_of(req) \in FileTools /\ elems # <<>>) =>
        /\ invoked = <<>>
        /\ \A k \in DOMAIN elems :
              /\ elems[k].st = "ready"
              /\ elems[k].out.ok
              /\ elems[k].out.val.path = items[k].path
              /\ name_of(req) \in {"affinity.open_file", "affinity.batch_open_files"}
                    => elems[k].out.val =
                          [opened |-> FALSE, app |-> "Unsupported",
                           path |-> items[k].path]
              /\ name_of(req) \in {"affinity.export", "affinity.batch_export"}
                    => elems[k].out.val =
                          [exported |-> FALSE, path |-> items[k].path]
        /\ BatchReturned =>
              /\ SuccessCount(resp) = 0
              /\ FailureCount(resp) = Min(Len(InputItems(req)), 16)
              /\ Len(Results(resp)) = Min(Len(InputItems(req)), 16)
              /\ \A i \in 1..Len(Results(resp)) :
                    /\ Results(resp)[i].o.path.s = InputPath(req, i)
                    /\ ~Flag(Results(resp)[i])

\* a batch open of more than 16 items has returned on a build without
\* osascript
C26_Witness ==
    /\ ~macos
    /\ BatchReturned
    /\ name_of(req) = "affinity.batch_open_files"
    /\ Len(InputItems(req)) > BatchLimit
    /\ FailureCount(resp) = BatchLimit


(* ---------------------------- one action per call ---------------------- *)

\* r is a tools/call of a tool that acts on one item, and its arguments
\* deserialize
IsSingleCall(r) ==
    /\ NamesTool(r)
    /\ name_of(r) \in MatchArms \ BatchTools
    /\ handle_tool_call_parse(name_of(r), arguments_of(r.params)).ok

\* C21: a single-item tool call whose arguments deserialize never spawns a
\* second external process: whatever the first one did, there is no retry
\* and no fallback attempt, for every tool of the catalog.
C21_NoSecondInvocation ==
    (IsSingleCall(req) /\ (pc = "await" \/ stage # <<>>)) => Len(invoked) <= 1

(* ---------------------------- a call without a name -------------------- *)

\* C25: a tools/call whose parameters have no string under "name" is
\* answered with one InvalidParams error whose message is "missing tool
\* name"; it ends at Parsed, no tool is looked up (nothing is logged as an
\* unknown tool or a handler failure) and no future or process is created.
C25_MissingNameRejected ==
    (pc = "idle" /\ req.method = "tools/call" /\ ~HasStr(req.params, "name")) =>
        /\ resp = Failure(-32602, "missing tool name")
        /\ sent = 1
        /\ stage = <<"Received", "Parsed">>
        /\ diag = {}
        /\ items = <<>> /\ elems = <<>> /\ invoked = <<>>

\* a call with a number under "name" and well-formed open_file arguments
\* was answered with an error
C25_Witness ==
    /\ pc = "idle"
    /\ req.method = "tools/call"
    /\ Has(req.params, "name") /\ req.params.o.name.t = "num"
    /\ Has(req.params, "arguments")
    /\ resp.kind = "error"

(* ---------------------------- the catalog and the router --------------- *)

\* the names tools/list returns
ListedNames == {get_all_tools[k].name : k \in DOMAIN get_all_tools}

\* C27: the names tools/list returns are the names tools/call routes: a
\* call is rejected as an unknown tool, before any future exists, exactly
\* when its name is not listed; a call of a listed name reaches its arm,
\* which parses the arguments or runs the action.
C27_ListedIffRoutable ==
    /\ (pc = "idle" /\ req.method = "tools/list") =>
          {resp.value.o.tools.a[k].o.name.s :
              k \in DOMAIN resp.value.o.tools.a} = ListedNames
    /\ (pc = "idle" /\ NamesTool(req)) =>
          /\ ("Unknown tool: " \o name_of(req)) \in diag
                <=> name_of(req) \notin ListedNames
          /\ name_of(req) \notin ListedNames =>
                /\ resp.kind = "error"
                /\ elems = <<>> /\ invoked = <<>>
          /\ name_of(req) \in ListedNames =>
                \/ resp.kind = "result"
                \/ (name_of(req) \o ": failed to parse arguments") \in diag
                \/ (elems # <<>> /\ HandlerFailed)

\* draw_shape, which affinity.rs defines, was called and rejected as an
\* unknown tool
C27_Witness ==
    /\ pc = "idle"
    /\ NamesTool(req)
    /\ name_of(req) = "affinity.draw_shape"
    /\ "Unknown tool: affinity.draw_shape" \in diag
    /\ resp.kind = "error"

(* ---------------------------- a malformed element in a batch ----------- *)

\* the element list of a batch call, when the arguments carry one
ElementList(r) ==
    LET arguments == arguments_of(r.params)
        key == IF name_of(r) = "affinity.batch_open_files" THEN "paths"
               ELSE "exports"
    IN  IF Has(arguments, key) /\ arguments.o[key].t = "arr"
        THEN arguments.o[key].a
        ELSE <<>>

\* element e of a batch call of this tool does not deserialize
MalformedElement(name, e) ==
    IF name = "affinity.batch_open_files" THEN e.t # "str"
    ELSE ~ExportParams(e).ok

\* C29: a batch call one of whose elements does not deserialize (a path
\* that is not a string, an export entry without a format or with an
\* unknown one) fails as a whole: it is answered with one error envelope,
\* never a batch result, and no future is created and no process spawned
\* for any element, the well-formed ones included.
C29_MalformedElementFailsBatch ==
    (/\ NamesTool(req)
     /\ name_of(req) \in BatchTools
     /\ \E k \in DOMAIN ElementList(req) :
           MalformedElement(name_of(req), ElementList(req)[k])) =>
        /\ pc = "idle"
        /\ resp = internal_error
        /\ sent = 1
        /\ items = <<>> /\ elems = <<>> /\ invoked = <<>>
        /\ (name_of(req) \o ": failed to parse arguments") \in diag

\* a batch export of three entries, the second one without a path and the
\* others well formed, was answered with an error
C29_Witness ==
    /\ pc = "idle"
    /\ NamesTool(req)
    /\ name_of(req) = "affinity.batch_export"
    /\ Len(ElementList(req)) = 3
    /\ ~MalformedElement(name_of(req), ElementList(req)[1])
    /\ MalformedElement(name_of(req), ElementList(req)[2])
    /\ ~MalformedElement(name_of(req), ElementList(req)[3])
    /\ resp.kind = "error"

(* ---------------------------- the lifetime of a call ------------------- *)

\* s is the beginning of t
IsPrefix(s, t) == Len(s) <= Len(t) /\ s = SubSeq(t, 1, Len(s))

BatchDispatched ==
    /\ NamesTool(req)
    /\ name_of(req) \in BatchTools
    /\ pc = "await" \/ stage = Lifetime

\* C28: in a batch call there is one item future for each of the first
\* min(N, 16) input items, in input order, and none for a later item; in
\* every interleaving of the completions each of these futures has spawned
\* its process once if it reaches the script and never otherwise, and a
\* future that has completed is not run again.
C28_EachItemOnce ==
    /\ [](BatchDispatched =>
            /\ Len(items) = Min(Len(InputItems(req)), 16)
            /\ Len(elems) = Len(items)
            /\ \A k \in DOMAIN items : items[k].path = InputPath(req, k)
            /\ Range(invoked) =
                  {k \in DOMAIN items :
                      task_poll(name_of(req), items[k]) = Pending}
            /\ Cardinality(Range(invoked)) = Len(invoked))
    /\ [][(pc = "await" /\ BatchDispatched) =>
            /\ items' = items
            /\ \A k \in DOMAIN elems :
                  elems[k].st = "ready" => elems'[k] = elems[k]]_vars

\* in a batch open of more than 16 items the third item has completed
\* while the first is still in flight, each with one process spawned
C28_Witness ==
    /\ pc = "await"
    /\ IsBatchCall(req)
    /\ Len(InputItems(req)) > BatchLimit
    /\ elems[1] = Pending /\ spawned(1) = 1
    /\ elems[3].st = "ready" /\ spawned(3) = 1

(* ---------------------------- the inferred application ----------------- *)

AppNames == {"Affinity Photo", "Affinity Designer", "Affinity Publisher"}

\* the application the rule names for each path: the suffix at the very
\* end decides, in any case of letters, and everything else is Photo
ExpectedApp(path) ==
    CASE path \in {"a.afphoto", "a.AFPHOTO", "a.AfPhoto", ".afphoto"} ->
            "Affinity Photo"
      [] path \in {"a.afdesign", "a.AFDESIGN", "a.afDesign",
                   "dir.afpub/a.AFdesign"} -> "Affinity Designer"
      [] path \in {"a.afpub", "a.AFPUB", "a.Afpub", "a.afphoto.afpub"} ->
            "Affinity Publisher"
      [] OTHER -> "Affinity Photo"

\* C23: on macOS an open_file that names no application answers, for every
\* path, with one of the three application names: Photo, Designer or
\* Publisher when the path ends in .afphoto, .afdesign or .afpub in any
\* case of letters, and Affinity Photo for every other ending and for no
\* extension at all; the inference never fails and the same path always
\* gives the same name.
C23_DetectAppTotal ==
    (macos /\ pc = "idle" /\ NamesTool(req)
        /\ name_of(req) = "affinity.open_file"
        /\ resp.kind = "result" /\ ~Has(arguments_of(req.params), "app")) =>
        /\ resp.value.o.opened.b
        /\ resp.value.o.app.s \in AppNames
        /\ resp.value.o.app.s = ExpectedApp(req.params.o.arguments.o.path.s)
        /\ resp.value.o.app.s =
              elems[1].out.val.app

\* a path whose last suffix is .afpub, after an .afphoto, was opened with
\* Affinity Publisher
C23_Witness ==
    /\ pc = "idle"
    /\ NamesTool(req)
    /\ name_of(req) = "affinity.open_file"
    /\ req.params.o.arguments.o.path.s = "a.afphoto.afpub"
    /\ resp.kind = "result"
    /\ resp.value.o.app.s = "Affinity Publisher"

=============================================================================
